---- MODULE Spec2Model ----
(***************************************************************************)
(* Model of ProdForkDetector::detect_forks (light-client/src/              *)
(* fork_detector.rs).  One invocation walks the witness list; for each     *)
(* witness it fetches the block at the verified height, compares header    *)
(* hashes, and on a mismatch runs verify_to_target on a fresh store and    *)
(* classifies the outcome.  The witnesses are the environment: what a      *)
(* witness answers to a fetch or to a verification is chosen the first     *)
(* time it is asked and replayed afterwards (fetchAns, verifyAns).         *)
(***************************************************************************)
EXTENDS Integers, Sequences, FiniteSets, TLC

(* ---- bounds ---- *)
MaxWitnesses == 4
MaxHeight == 2
MaxReplayed == 2
MaxSeconds == 7

(* ---- domains ---- *)
Peers == 1..MaxWitnesses
Heights == 1..MaxHeight
Headers == {1, 2, 3}
PrimaryPeer == 0

(* ErrorKind.  The kinds and their predicates are defined outside          *)
(* fork_detector.rs, which only relies on has_expired and is_timeout: one  *)
(* kind is kept for each combination of the two predicates.  The last one  *)
(* stands for any kind for which both hold, so that the order of the match *)
(* arms is observable.                                                     *)
ErrorKinds == {"Timeout", "InvalidCommit", "TrustedStateOutsideTrustingPeriod",
               "TimeoutOutsideTrustingPeriod"}

(* ErrorKind::has_expired / ErrorKind::is_timeout *)
has_expired(kind) ==
    kind \in {"TrustedStateOutsideTrustingPeriod", "TimeoutOutsideTrustingPeriod"}

is_timeout(kind) == kind \in {"Timeout", "TimeoutOutsideTrustingPeriod"}

(* Hasher::hash_header: the hasher is an injected capability; the toy      *)
(* hasher used here maps headers 1 and 3 to the same digest.               *)
hash_header(header) == header % 2

(* LightBlock: signed header (header, height) and provider *)
LightBlock(header, height, provider) ==
    [header |-> header, height |-> height, provider |-> provider]

height(block) == block.height

NoBlock == LightBlock(0, 0, PrimaryPeer)

(* ---- store::memory::MemoryStore ---- *)
MemoryStore_new == {}

insert(store, block, status) ==
    {e \in store : ~(e.height = block.height /\ e.status = status)}
        \cup {[height |-> block.height, status |-> status, block |-> block]}

(* ---- results ---- *)
Unasked == [tag |-> "Unasked"]

Ok(v) == [tag |-> "Ok", value |-> v]

Err(kind) == [tag |-> "Err", kind |-> kind]

NoResult == [tag |-> "None"]

NoCall == [target |-> 0, store |-> {}]

(* ---- Fork ---- *)
Forked(primary, witness) == [type |-> "Forked", primary |-> primary, witness |-> witness]

Faulty(block, kind) == [type |-> "Faulty", block |-> block, kind |-> kind]

Timeout(peer, kind) == [type |-> "Timeout", peer |-> peer, kind |-> kind]

(* ---- ForkDetection ---- *)
NotDetected == [variant |-> "NotDetected", forks |-> <<>>]

Detected(list) == [variant |-> "Detected", forks |-> list]

(* ---- types::Time, std::time::SystemTime ---- *)
Time(seconds, nanos) == [seconds |-> seconds, nanos |-> nanos]

NoTime == [tag |-> "None"]

(* an instant: whole seconds from the Unix epoch (negative before it) and  *)
(* nanoseconds within the second                                           *)
SystemTime(secs, nanos) == [tag |-> "SystemTime", secs |-> secs, nanos |-> nanos]

Panic(msg) == [tag |-> "panic", msg |-> msg]

VARIABLES
    verified_block,   \* input: block accepted from the primary
    trusted_block,    \* input: earlier trusted block
    witnesses,        \* input: the witness list (peer ids, in order)
    fetchAns,         \* environment: each witness's answer to get_or_fetch_block
    verifyAns,        \* environment: each witness's answer to verify_to_target
    pc,               \* position inside detect_forks
    idx,              \* position of the loop in witnesses
    primary_hash,
    forks,
    light_store,      \* state.light_store of the current witness
    witness_block,
    result,           \* result of verify_to_target
    ret,              \* value returned by detect_forks
    calls,            \* log of the calls made on the witnesses
    invocation,       \* number of the current invocation
    changed,          \* witness whose behaviour changed before this invocation
    prev,             \* the previous invocation: what it returned, whom it called
    verify_call,      \* arguments of the latest verify_to_target call
    time,             \* types::Time to convert
    system_time,      \* the SystemTime made from it
    rpc_pc,           \* position in the current Client call
    endpoint,         \* the Client method called
    request,          \* the request it passes to perform
    request_body,     \* perform: request.into_json()
    requests,         \* bodies handed to transport.request during the call
    response_body,    \* what transport.request returned
    parses,           \* bodies handed to Response::from_string during the call
    perform_ret,      \* what perform returned
    rpc_ret           \* what the Client method returned

vars == <<verified_block, trusted_block, witnesses, fetchAns, verifyAns, pc, idx,
          primary_hash, forks, light_store, witness_block, result, ret, calls,
          invocation, changed, prev, verify_call, time, system_time, rpc_pc, endpoint, request,
          request_body, requests, response_body, parses, perform_ret, rpc_ret>>

time_vars == <<time, system_time>>

rpc_vars == <<rpc_pc, endpoint, request, request_body, requests, response_body, parses,
              perform_ret, rpc_ret>>

NoRequest == [method |-> "", params |-> ""]

NoBody == [kind |-> "", method |-> "", params |-> ""]

(* no Client call has been made *)
RpcIdle ==
    /\ rpc_pc = "idle"
    /\ endpoint = ""
    /\ request = NoRequest
    /\ request_body = NoBody
    /\ requests = <<>>
    /\ response_body = NoResult
    /\ parses = <<>>
    /\ perform_ret = NoResult
    /\ rpc_ret = NoResult

(* the variables detect_forks does not touch *)
other_components == <<time_vars, rpc_vars>>

inputs == <<verified_block, trusted_block, witnesses>>

Init ==
    /\ \E ht \in Heights :
           verified_block = LightBlock(1, ht, PrimaryPeer)
    /\ \E ht \in Heights :
           trusted_block = LightBlock(2, ht, PrimaryPeer)
    /\ \E n \in 0..MaxWitnesses : witnesses = [i \in 1..n |-> i]
    /\ fetchAns = [p \in Peers |-> Unasked]
    /\ verifyAns = [p \in Peers |-> Unasked]
    /\ pc = "begin"
    /\ idx = 0
    /\ primary_hash = 0
    /\ forks = <<>>
    /\ light_store = MemoryStore_new
    /\ witness_block = NoBlock
    /\ result = NoResult
    /\ ret = NoResult
    /\ calls = <<>>
    /\ invocation = 1
    /\ changed = 0
    /\ prev = [ret |-> NoResult, calls |-> <<>>]
    /\ verify_call = NoCall
    /\ time = NoTime
    /\ system_time = NoResult
    /\ RpcIdle

(* Begin with the fork list kept from the previous invocation *)
Begin_KeepForks ==
    /\ pc = "begin"
    /\ primary_hash' = hash_header(verified_block.header)
    /\ forks' = IF prev.ret.tag = "Ok" THEN prev.ret.value.forks ELSE <<>>
    /\ idx' = 1
    /\ pc' = "loop"
    /\ UNCHANGED <<inputs, other_components, verify_call, fetchAns, verifyAns, light_store, witness_block,
                   result, ret, calls, invocation, changed, prev>>

(* lines 88-92: hash of the primary's header, empty fork list *)
Begin ==
    /\ pc = "begin"
    /\ primary_hash' = hash_header(verified_block.header)
    /\ forks' = <<>>
    /\ idx' = 1
    /\ pc' = "loop"
    /\ UNCHANGED <<inputs, other_components, verify_call, fetchAns, verifyAns, light_store, witness_block,
                   result, ret, calls, invocation, changed, prev>>

(* what a witness can answer to get_or_fetch_block(h): a block at exactly  *)
(* h whose provider is this witness, or an error                           *)
FetchAnswers(peer, h) ==
    {Ok(LightBlock(hd, h, peer)) : hd \in Headers} \cup {Err(k) : k \in ErrorKinds}

VerifyAnswers == {Ok(0)} \cup {Err(k) : k \in ErrorKinds}

(* LightClient::get_or_fetch_block on a store: the block is inserted with  *)
(* status Unverified when it was fetched                                   *)
get_or_fetch_block(store, answer) ==
    IF answer.tag = "Ok" THEN insert(store, answer.value, "Unverified") ELSE store

(* lines 94-99: fresh state, fetch, `?` *)
FetchAs(w, a) ==
    /\ fetchAns' = [fetchAns EXCEPT ![w] = a]
    /\ calls' = Append(calls, <<"fetch", w>>)
    /\ light_store' = get_or_fetch_block(MemoryStore_new, a)
    /\ IF a.tag = "Ok"
       THEN /\ witness_block' = a.value
            /\ pc' = "compare"
            /\ UNCHANGED ret
       ELSE /\ ret' = Err(a.kind)
            /\ pc' = "done"
            /\ UNCHANGED witness_block
    /\ UNCHANGED <<inputs, other_components, verify_call, verifyAns, idx, primary_hash, forks, result,
                   invocation, changed, prev>>

Fetch ==
    /\ pc = "loop"
    /\ idx <= Len(witnesses)
    /\ LET w == witnesses[idx] IN
       \E a \in (IF fetchAns[w] = Unasked
                 THEN FetchAnswers(w, height(verified_block))
                 ELSE {fetchAns[w]}) : FetchAs(w, a)

(* Compare comparing the headers themselves instead of their hashes *)
Compare_ByHeader ==
    /\ pc = "compare"
    /\ IF verified_block.header = witness_block.header
       THEN /\ idx' = idx + 1
            /\ pc' = "loop"
            /\ UNCHANGED light_store
       ELSE /\ light_store' = insert(insert(light_store, trusted_block, "Verified"),
                                     witness_block, "Unverified")
            /\ pc' = "verify"
            /\ UNCHANGED idx
    /\ UNCHANGED <<inputs, other_components, verify_call, fetchAns, verifyAns, primary_hash, forks, witness_block,
                   result, ret, calls, invocation, changed, prev>>

(* Compare seeding the store before the hashes are compared *)
Compare_SeedFirst ==
    /\ pc = "compare"
    /\ light_store' = insert(insert(light_store, trusted_block, "Verified"),
                             witness_block, "Unverified")
    /\ IF primary_hash = hash_header(witness_block.header)
       THEN idx' = idx + 1 /\ pc' = "loop"
       ELSE pc' = "verify" /\ UNCHANGED idx
    /\ UNCHANGED <<inputs, other_components, verify_call, fetchAns, verifyAns, primary_hash, forks, witness_block,
                   result, ret, calls, invocation, changed, prev>>

(* Compare without the `continue` on equal hashes *)
Compare_NoSkip ==
    /\ pc = "compare"
    /\ light_store' = insert(insert(light_store, trusted_block, "Verified"),
                             witness_block, "Unverified")
    /\ pc' = "verify"
    /\ UNCHANGED <<inputs, other_components, verify_call, fetchAns, verifyAns, idx, primary_hash, forks, witness_block,
                   result, ret, calls, invocation, changed, prev>>

(* Compare with the two statuses exchanged *)
Compare_SwappedStatus ==
    /\ pc = "compare"
    /\ LET witness_hash == hash_header(witness_block.header) IN
       IF primary_hash = witness_hash
       THEN /\ idx' = idx + 1
            /\ pc' = "loop"
            /\ UNCHANGED light_store
       ELSE /\ light_store' = insert(insert(light_store, trusted_block, "Unverified"),
                                     witness_block, "Verified")
            /\ pc' = "verify"
            /\ UNCHANGED idx
    /\ UNCHANGED <<inputs, other_components, verify_call, fetchAns, verifyAns, primary_hash, forks, witness_block,
                   result, ret, calls, invocation, changed, prev>>

(* lines 101-114: compare the hashes; on a mismatch seed the store *)
Compare ==
    /\ pc = "compare"
    /\ LET witness_hash == hash_header(witness_block.header) IN
       IF primary_hash = witness_hash
       THEN /\ idx' = idx + 1
            /\ pc' = "loop"
            /\ UNCHANGED light_store
       ELSE /\ light_store' = insert(insert(light_store, trusted_block, "Verified"),
                                     witness_block, "Unverified")
            /\ pc' = "verify"
            /\ UNCHANGED idx
    /\ UNCHANGED <<inputs, other_components, verify_call, fetchAns, verifyAns, primary_hash, forks, witness_block,
                   result, ret, calls, invocation, changed, prev>>

(* lines 116-118: verify_to_target(verified_block.height(), state) *)
Verify ==
    /\ pc = "verify"
    /\ LET w == witnesses[idx] IN
       \E a \in (IF verifyAns[w] = Unasked THEN VerifyAnswers ELSE {verifyAns[w]}) :
          /\ verifyAns' = [verifyAns EXCEPT ![w] = a]
          /\ result' = a
          /\ calls' = Append(calls, <<"verify", w>>)
    /\ verify_call' = [target |-> height(verified_block), store |-> light_store]
    /\ pc' = "classify"
    /\ UNCHANGED <<inputs, other_components, fetchAns, idx, primary_hash, forks, light_store,
                   witness_block, ret, invocation, changed, prev>>

(* Classify with the is_timeout arm missing: a timeout is deemed faulty *)
Classify_TimeoutAsFaulty(res, primary, wblock) ==
    IF res.tag = "Ok" THEN Forked(primary, wblock)
    ELSE IF has_expired(res.kind) THEN Forked(primary, wblock)
    ELSE Faulty(wblock, res.kind)

(* Classify with the has_expired arm also taking timeouts *)
Classify_TimeoutAsForked(res, primary, wblock) ==
    IF res.tag = "Ok" THEN Forked(primary, wblock)
    ELSE IF has_expired(res.kind) \/ is_timeout(res.kind) THEN Forked(primary, wblock)
    ELSE Faulty(wblock, res.kind)

(* Classify with the is_timeout arm before the has_expired arm *)
Classify_TimeoutFirst(res, primary, wblock) ==
    IF res.tag = "Ok" THEN Forked(primary, wblock)
    ELSE IF is_timeout(res.kind) THEN Timeout(wblock.provider, res.kind)
    ELSE IF has_expired(res.kind) THEN Forked(primary, wblock)
    ELSE Faulty(wblock, res.kind)

(* Classify with the has_expired arm missing *)
Classify_ExpiredAsFaulty(res, primary, wblock) ==
    IF res.tag = "Ok" THEN Forked(primary, wblock)
    ELSE IF is_timeout(res.kind) THEN Timeout(wblock.provider, res.kind)
    ELSE Faulty(wblock, res.kind)

(* lines 120-135: the match on the verification result *)
Classify(res, primary, wblock) ==
    IF res.tag = "Ok" THEN Forked(primary, wblock)
    ELSE IF has_expired(res.kind) THEN Forked(primary, wblock)
    ELSE IF is_timeout(res.kind) THEN Timeout(wblock.provider, res.kind)
    ELSE Faulty(wblock, res.kind)

(* Push inserting the entry at the front of the list *)
Push_Front ==
    /\ pc = "classify"
    /\ forks' = <<Classify(result, verified_block, witness_block)>> \o forks
    /\ calls' = Append(calls, <<"push", witnesses[idx]>>)
    /\ idx' = idx + 1
    /\ pc' = "loop"
    /\ UNCHANGED <<inputs, other_components, verify_call, fetchAns, verifyAns, primary_hash, light_store,
                   witness_block, result, ret, invocation, changed, prev>>

(* Push that does not move to the next witness *)
Push_NoAdvance ==
    /\ pc = "classify"
    /\ forks' = Append(forks, Classify(result, verified_block, witness_block))
    /\ calls' = Append(calls, <<"push", witnesses[idx]>>)
    /\ pc' = "loop"
    /\ UNCHANGED <<inputs, other_components, verify_call, fetchAns, verifyAns, idx, primary_hash, light_store,
                   witness_block, result, ret, invocation, changed, prev>>

(* lines 120-135: the entry is pushed, the loop goes to the next witness *)
Push ==
    /\ pc = "classify"
    /\ forks' = Append(forks, Classify(result, verified_block, witness_block))
    /\ calls' = Append(calls, <<"push", witnesses[idx]>>)
    /\ idx' = idx + 1
    /\ pc' = "loop"
    /\ UNCHANGED <<inputs, other_components, verify_call, fetchAns, verifyAns, primary_hash, light_store,
                   witness_block, result, ret, invocation, changed, prev>>

(* Return without the is_empty test *)
Return_AlwaysDetected ==
    /\ pc = "loop"
    /\ idx > Len(witnesses)
    /\ ret' = Ok(Detected(forks))
    /\ pc' = "done"
    /\ UNCHANGED <<inputs, other_components, verify_call, fetchAns, verifyAns, idx, primary_hash, forks, light_store,
                   witness_block, result, calls, invocation, changed, prev>>

(* lines 138-142 *)
Return ==
    /\ pc = "loop"
    /\ idx > Len(witnesses)
    /\ ret' = IF forks = <<>> THEN Ok(NotDetected) ELSE Ok(Detected(forks))
    /\ pc' = "done"
    /\ UNCHANGED <<inputs, other_components, verify_call, fetchAns, verifyAns, idx, primary_hash, forks, light_store,
                   witness_block, result, calls, invocation, changed, prev>>

(* The caller invokes detect_forks again on the same blocks and witness   *)
(* list.  Before that, at most one witness (changed) may have changed its  *)
(* behaviour: its answers are forgotten and chosen anew when it is asked;  *)
(* every other witness answers identically.  Two invocations are          *)
(* modelled, the second one for witness lists of up to MaxReplayed         *)
(* witnesses.  Nothing of an invocation outlives it but its result.        *)
NextInvocation ==
    /\ pc = "done"
    /\ invocation = 1
    /\ Len(witnesses) <= MaxReplayed
    /\ \E c \in {0} \cup {witnesses[i] : i \in 1..Len(witnesses)} :
          /\ changed' = c
          /\ fetchAns' = [p \in Peers |-> IF p = c THEN Unasked ELSE fetchAns[p]]
          /\ verifyAns' = [p \in Peers |-> IF p = c THEN Unasked ELSE verifyAns[p]]
    /\ prev' = [ret |-> ret, calls |-> calls]
    /\ invocation' = invocation + 1
    /\ pc' = "begin"
    /\ idx' = 0
    /\ primary_hash' = 0
    /\ forks' = <<>>
    /\ light_store' = MemoryStore_new
    /\ witness_block' = NoBlock
    /\ result' = NoResult
    /\ ret' = NoResult
    /\ calls' = <<>>
    /\ verify_call' = NoCall
    /\ UNCHANGED <<inputs, other_components>>

Next == Begin \/ Fetch \/ Compare \/ Verify \/ Push \/ Return \/ NextInvocation

Spec == Init /\ [][Next]_vars

(***************************************************************************)
(* impl From<Time> for SystemTime (src/types/mod.rs)                       *)
(*                                                                         *)
(* 2^64 and 2^32 are not written out: the value of an `as u64` or `as u32` *)
(* cast is kept as wraps * 2^w + low, where wraps = 1 exactly when the     *)
(* signed value was negative and the cast wrapped it around.               *)
(***************************************************************************)
Seconds == -MaxSeconds..MaxSeconds

Nanos == {-2000000000, -999999999, -1, 0, 1, 999999999}

(* `x as u64`, `x as u32` *)
as_unsigned(x) == [wraps |-> IF x < 0 THEN 1 ELSE 0, low |-> x]

(* Duration::new(secs: u64, nanos: u32): the whole seconds of nanos are    *)
(* carried into secs, with a panic when secs overflows u64.                *)
(* 2^32 = 4 * 10^9 + 294967296.                                            *)
Duration_new(secs, nanos) ==
    LET rest == IF nanos.wraps = 1 THEN 294967296 + nanos.low ELSE nanos.low
        carry == (IF nanos.wraps = 1 THEN 4 ELSE 0) + (rest \div 1000000000)
        subsec == rest % 1000000000
    IN  IF secs.wraps = 1 /\ secs.low + carry >= 0
        THEN Panic("overflow in Duration::new")
        ELSE [tag |-> "Duration", secs |-> [wraps |-> secs.wraps, low |-> secs.low + carry],
              nanos |-> subsec]

(* UNIX_EPOCH + duration *)
epoch_add(d) ==
    IF d.tag = "panic" THEN d
    ELSE IF d.secs.wraps = 1
         THEN Panic("overflow when adding duration to instant")
         ELSE SystemTime(d.secs.low, d.nanos)

(* UNIX_EPOCH - duration: a duration of 2^63 seconds or more is out of the *)
(* range of SystemTime                                                     *)
epoch_sub(d) ==
    IF d.tag = "panic" THEN d
    ELSE IF d.secs.wraps = 1
         THEN Panic("overflow when subtracting duration from instant")
         ELSE IF d.nanos = 0 THEN SystemTime(0 - d.secs.low, 0)
              ELSE SystemTime(0 - d.secs.low - 1, 1000000000 - d.nanos)

(* mod.rs 38-46 *)
From_Time(t) ==
    IF t.seconds >= 0
    THEN epoch_add(Duration_new(as_unsigned(t.seconds), as_unsigned(t.nanos)))
    ELSE epoch_sub(Duration_new(as_unsigned(t.seconds), as_unsigned(t.nanos)))

(* no detect_forks call is in progress *)
DetectorIdle ==
    /\ verified_block = NoBlock
    /\ trusted_block = NoBlock
    /\ witnesses = <<>>
    /\ fetchAns = [p \in Peers |-> Unasked]
    /\ verifyAns = [p \in Peers |-> Unasked]
    /\ pc = "idle"
    /\ idx = 0
    /\ primary_hash = 0
    /\ forks = <<>>
    /\ light_store = MemoryStore_new
    /\ witness_block = NoBlock
    /\ result = NoResult
    /\ ret = NoResult
    /\ calls = <<>>
    /\ invocation = 1
    /\ changed = 0
    /\ prev = [ret |-> NoResult, calls |-> <<>>]
    /\ verify_call = NoCall

detector_vars == <<inputs, fetchAns, verifyAns, pc, idx, primary_hash, forks, light_store,
                   witness_block, result, ret, calls, invocation, changed, prev,
                   verify_call>>

InitTime ==
    /\ DetectorIdle
    /\ \E sec \in Seconds, n \in Nanos : time = Time(sec, n)
    /\ system_time = NoResult
    /\ RpcIdle

(* SystemTime::from(time) *)
Convert ==
    /\ time # NoTime
    /\ system_time = NoResult
    /\ system_time' = From_Time(time)
    /\ UNCHANGED <<time, detector_vars, rpc_vars>>

NextTime == Convert

SpecTime == InitTime /\ [][NextTime]_vars

(***************************************************************************)
(* rpc::Client (rpc/src/client.rs)                                         *)
(***************************************************************************)
Rq(method, params) == [method |-> method, params |-> params]

(* the public methods of Client: the request each one builds and what it   *)
(* takes from the response of perform                                      *)
Endpoints ==
    [abci_info            |-> [request |-> Rq("abci_info", "none"), take |-> "response"],
     abci_query           |-> [request |-> Rq("abci_query", "new"), take |-> "response"],
     block                |-> [request |-> Rq("block", "new"), take |-> "all"],
     latest_block         |-> [request |-> Rq("block", "default"), take |-> "all"],
     block_results        |-> [request |-> Rq("block_results", "new"), take |-> "all"],
     latest_block_results |-> [request |-> Rq("block_results", "default"), take |-> "all"],
     blockchain           |-> [request |-> Rq("blockchain", "new"), take |-> "all"],
     broadcast_tx_async   |-> [request |-> Rq("broadcast_tx_async", "new"), take |-> "all"],
     broadcast_tx_sync    |-> [request |-> Rq("broadcast_tx_sync", "new"), take |-> "all"],
     broadcast_tx_commit  |-> [request |-> Rq("broadcast_tx_commit", "new"), take |-> "all"],
     commit               |-> [request |-> Rq("commit", "new"), take |-> "all"],
     validators           |-> [request |-> Rq("validators", "new"), take |-> "all"],
     latest_commit        |-> [request |-> Rq("commit", "default"), take |-> "all"],
     health               |-> [request |-> Rq("health", "none"), take |-> "nothing"],
     genesis              |-> [request |-> Rq("genesis", "none"), take |-> "genesis"],
     net_info             |-> [request |-> Rq("net_info", "none"), take |-> "all"],
     status               |-> [request |-> Rq("status", "none"), take |-> "all"],
     broadcast_evidence   |-> [request |-> Rq("broadcast_evidence", "new"), take |-> "all"],
     perform              |-> [request |-> Rq("status", "none"), take |-> "all"]]

(* Request::into_json: the JSON-RPC envelope of the request *)
into_json(rq) == [kind |-> "request", method |-> rq.method, params |-> rq.params]

(* the bodies a server can send back *)
Body(kind, method) == [kind |-> kind, method |-> method]

(* what transport.request can return for a request body *)
TransportAnswers(body) ==
    {Ok(Body("result", body.method)),
     Ok(Body("result", IF body.method = "status" THEN "block" ELSE "status")),
     Ok(Body("error", "")),
     Ok(Body("malformed", "")),
     Err("HttpError"),
     Err("Timeout")}

Response(method) == [response |-> method, field |-> "all"]

(* R::Response::from_string: the result of the request's own type is       *)
(* parsed, a JSON-RPC error envelope becomes an error, anything else fails *)
from_string(method, body) ==
    IF body.kind = "result" /\ body.method = method THEN Ok(Response(method))
    ELSE IF body.kind = "error" THEN Err("Rpc")
         ELSE Err("Parse")

(* a Client method is called *)
Call ==
    /\ rpc_pc \in {"idle", "done"}
    /\ \E e \in DOMAIN Endpoints :
           /\ endpoint' = e
           /\ request' = Endpoints[e].request
    /\ rpc_pc' = "perform"
    /\ request_body' = NoBody
    /\ requests' = <<>>
    /\ response_body' = NoResult
    /\ parses' = <<>>
    /\ perform_ret' = NoResult
    /\ rpc_ret' = NoResult
    /\ UNCHANGED <<detector_vars, time_vars>>

(* client.rs 171 *)
Perform_IntoJson ==
    /\ rpc_pc = "perform"
    /\ request_body' = into_json(request)
    /\ rpc_pc' = "request"
    /\ UNCHANGED <<endpoint, request, requests, response_body, parses, perform_ret, rpc_ret,
                   detector_vars, time_vars>>

(* client.rs 172: transport.request(request_body).await? *)
Perform_Request ==
    /\ rpc_pc = "request"
    /\ requests' = Append(requests, request_body)
    /\ \E answer \in TransportAnswers(request_body) :
           /\ response_body' = answer
           /\ IF answer.tag = "Err"
              THEN perform_ret' = answer /\ rpc_pc' = "return"
              ELSE perform_ret' = perform_ret /\ rpc_pc' = "from_string"
    /\ UNCHANGED <<endpoint, request, request_body, parses, rpc_ret, detector_vars,
                   time_vars>>

(* client.rs 173 *)
Perform_FromString ==
    /\ rpc_pc = "from_string"
    /\ parses' = Append(parses, response_body.value)
    /\ perform_ret' = from_string(request.method, response_body.value)
    /\ rpc_pc' = "return"
    /\ UNCHANGED <<endpoint, request, request_body, requests, response_body, rpc_ret,
                   detector_vars, time_vars>>

(* health with the error of perform dropped: let _ = perform(..); Ok(()) *)
EndpointReturn_ErrDropped ==
    /\ rpc_pc = "return"
    /\ rpc_ret' = IF Endpoints[endpoint].take = "all" THEN perform_ret
                  ELSE IF Endpoints[endpoint].take = "nothing" THEN Ok([field |-> "()"])
                       ELSE IF perform_ret.tag = "Err" THEN perform_ret
                            ELSE Ok([perform_ret.value EXCEPT
                                         !.field = Endpoints[endpoint].take])
    /\ rpc_pc' = "done"
    /\ UNCHANGED <<endpoint, request, request_body, requests, response_body, parses,
                   perform_ret, detector_vars, time_vars>>

(* the Client method returns: the result of perform, or with `?` the error *)
(* of perform and else a part of its response                              *)
EndpointReturn ==
    /\ rpc_pc = "return"
    /\ rpc_ret' = IF Endpoints[endpoint].take = "all" \/ perform_ret.tag = "Err"
                  THEN perform_ret
                  ELSE IF Endpoints[endpoint].take = "nothing" THEN Ok([field |-> "()"])
                       ELSE Ok([perform_ret.value EXCEPT
                                    !.field = Endpoints[endpoint].take])
    /\ rpc_pc' = "done"
    /\ UNCHANGED <<endpoint, request, request_body, requests, response_body, parses,
                   perform_ret, detector_vars, time_vars>>

InitRpc ==
    /\ DetectorIdle
    /\ time = NoTime
    /\ system_time = NoResult
    /\ RpcIdle

NextRpc ==
    \/ Call
    \/ Perform_IntoJson
    \/ Perform_Request
    \/ Perform_FromString
    \/ EndpointReturn

SpecRpc == InitRpc /\ [][NextRpc]_vars

(***************************************************************************)
(* Vocabulary of the properties                                            *)
(***************************************************************************)
WitnessSet == {witnesses[i] : i \in 1..Len(witnesses)}

PosOf(w) == CHOOSE i \in 1..Len(witnesses) : witnesses[i] = w

(* op was called on witness w during the current invocation *)
Called(op, w) == \E k \in 1..Len(calls) : calls[k] = <<op, w>>

FetchFailed(w) == fetchAns[w].tag = "Err"

Block(w) == fetchAns[w].value

(* w answers the fetch with a block whose header hash is not the primary's *)
Divergent(w) ==
    /\ fetchAns[w].tag = "Ok"
    /\ hash_header(Block(w).header) # hash_header(verified_block.header)

Matching(w) ==
    /\ fetchAns[w].tag = "Ok"
    /\ hash_header(Block(w).header) = hash_header(verified_block.header)

(* the witness an entry is about *)
EntryPeer(e) ==
    IF e.type = "Forked" THEN e.witness.provider
    ELSE IF e.type = "Faulty" THEN e.block.provider
    ELSE e.peer

EntriesIn(list, w) == {list[k] : k \in {n \in 1..Len(list) : EntryPeer(list[n]) = w}}

Types(list) == {list[k].type : k \in 1..Len(list)}

(* the precondition of detect_forks *)
Precondition == height(verified_block) > height(trusted_block)

ReturnedOk == pc = "done" /\ ret.tag = "Ok"

ReturnedDetected == ReturnedOk /\ ret.value.variant = "Detected"

ReturnedList == IF ReturnedOk THEN ret.value.forks ELSE <<>>

(***************************************************************************)
(* C1: detect_forks returns Ok(ForkDetection) whatever the witnesses       *)
(* answer; a failure of a fetch or of a verification is never returned as  *)
(* Err.                                                                    *)
(***************************************************************************)
C1_NeverErr == (Precondition /\ pc = "done") => ret.tag = "Ok"

(***************************************************************************)
(* C2: when witness i has a divergent block that verifies and another      *)
(* witness j fails in get_or_fetch_block, detect_forks returns Detected    *)
(* with the Forked entry of i, and every witness after j is contacted.     *)
(***************************************************************************)
C2_UnreachableWitnessHidesNothing ==
    (Precondition /\ pc = "done") =>
        \A i \in WitnessSet, j \in WitnessSet :
            (i # j /\ Divergent(i) /\ verifyAns[i].tag = "Ok" /\ FetchFailed(j)) =>
                /\ ReturnedDetected
                /\ Forked(verified_block, Block(i)) \in EntriesIn(ReturnedList, i)
                /\ \A k \in WitnessSet : PosOf(k) > PosOf(j) => Called("fetch", k)

(***************************************************************************)
(* C3: a timeout of witness W, in get_or_fetch_block or in                 *)
(* verify_to_target, gives Detected with the entry Timeout(W, kind).       *)
(***************************************************************************)
C3_TimeoutEntry ==
    (Precondition /\ pc = "done") =>
        \A w \in WitnessSet :
            /\ (Called("fetch", w) /\ FetchFailed(w) /\ is_timeout(fetchAns[w].kind)) =>
                   /\ ReturnedDetected
                   /\ Timeout(w, fetchAns[w].kind) \in EntriesIn(ReturnedList, w)
            /\ (Called("verify", w) /\ verifyAns[w].tag = "Err"
                   /\ is_timeout(verifyAns[w].kind)) =>
                   /\ ReturnedDetected
                   /\ Timeout(w, verifyAns[w].kind) \in EntriesIn(ReturnedList, w)

(***************************************************************************)
(* C4: the entry of a divergent witness is determined by the verification  *)
(* result: Ok gives Forked{verified_block, witness block}, a timeout gives *)
(* Timeout(provider, kind), an error that is neither expired nor a timeout *)
(* gives Faulty(witness block, kind).                                      *)
(***************************************************************************)
C4_Table(w) ==
    IF verifyAns[w].tag = "Ok" THEN Forked(verified_block, Block(w))
    ELSE IF is_timeout(verifyAns[w].kind)
         THEN Timeout(Block(w).provider, verifyAns[w].kind)
         ELSE Faulty(Block(w), verifyAns[w].kind)

C5_ExpiredIsForked ==
    \A w \in WitnessSet :
        (Called("push", w) /\ Divergent(w) /\ verifyAns[w].tag = "Err"
            /\ has_expired(verifyAns[w].kind)) =>
            EntriesIn(forks, w) = {Forked(verified_block, Block(w))}

C5_Witness ==
    /\ Precondition
    /\ ReturnedDetected
    /\ \E w \in WitnessSet :
          /\ Called("push", w)
          /\ verifyAns[w] = Err("TrustedStateOutsideTrustingPeriod")
          /\ EntriesIn(ReturnedList, w) = {Forked(verified_block, Block(w))}


(***************************************************************************)
(* C6: every Forked{primary, witness} entry has primary and witness at the *)
(* same height with different header hashes, and verify_to_target returned *)
(* Ok for that witness.                                                    *)
(***************************************************************************)
C6_ForkedShape(e) ==
    /\ height(e.primary) = height(e.witness)
    /\ hash_header(e.primary.header) # hash_header(e.witness.header)
    /\ Called("verify", EntryPeer(e))

C6_ForkedVerifiedOk ==
    Precondition =>
        \A k \in 1..Len(forks) :
            forks[k].type = "Forked" =>
                /\ C6_ForkedShape(forks[k])
                /\ verifyAns[EntryPeer(forks[k])].tag = "Ok"

(* C6 as amended: verify_to_target returned Ok, or failed with an error    *)
(* whose kind has_expired.                                                 *)
C6_ForkedVerifiedOrExpired ==
    \A k \in 1..Len(forks) :
        forks[k].type = "Forked" =>
            /\ C6_ForkedShape(forks[k])
            /\ \/ verifyAns[EntryPeer(forks[k])].tag = "Ok"
               \/ /\ verifyAns[EntryPeer(forks[k])].tag = "Err"
                  /\ has_expired(verifyAns[EntryPeer(forks[k])].kind)

C6_Witness ==
    /\ Precondition
    /\ ReturnedDetected
    /\ \E a \in 1..Len(ReturnedList), b \in 1..Len(ReturnedList) :
          /\ ReturnedList[a].type = "Forked"
          /\ verifyAns[EntryPeer(ReturnedList[a])].tag = "Ok"
          /\ ReturnedList[b].type = "Forked"
          /\ verifyAns[EntryPeer(ReturnedList[b])].tag = "Err"

(***************************************************************************)
(* C7: if the block of every witness has the header hash of                *)
(* verified_block, detect_forks returns NotDetected.                       *)
(***************************************************************************)
C7_AgreementNotDetected ==
    (pc = "done" /\ \A w \in WitnessSet : Matching(w)) => ret = Ok(NotDetected)

C7_Witness ==
    /\ Precondition
    /\ pc = "done"
    /\ Len(witnesses) >= 2
    /\ \A w \in WitnessSet : Matching(w)
    /\ \E w \in WitnessSet : Block(w).header # verified_block.header
    /\ ret = Ok(NotDetected)

(***************************************************************************)
(* C8: the returned list has at most one entry per witness: one for each   *)
(* witness whose block has a divergent hash, none for the others.          *)
(***************************************************************************)
C8_Exhaustive ==
    ReturnedOk =>
        /\ Len(ReturnedList) <= Len(witnesses)
        /\ \A k \in 1..Len(ReturnedList) : EntryPeer(ReturnedList[k]) \in WitnessSet
        /\ \A w \in WitnessSet :
              Cardinality({k \in 1..Len(ReturnedList) : EntryPeer(ReturnedList[k]) = w})
                  = IF Divergent(w) THEN 1 ELSE 0

C8_Witness ==
    /\ Precondition
    /\ ReturnedDetected
    /\ Len(ReturnedList) >= 2
    /\ Len(ReturnedList) < Len(witnesses)
    /\ \E w \in WitnessSet : Matching(w) /\ EntriesIn(ReturnedList, w) = {}

(***************************************************************************)
(* C9: the returned list is in witness order; witnesses                    *)
(* [match, forked, timeout on verify, faulty] give                         *)
(* [Forked, Timeout, Faulty].                                              *)
(***************************************************************************)
C9_Example ==
    /\ Len(witnesses) = 4
    /\ Matching(witnesses[1])
    /\ Divergent(witnesses[2]) /\ verifyAns[witnesses[2]].tag = "Ok"
    /\ Divergent(witnesses[3]) /\ verifyAns[witnesses[3]] = Err("Timeout")
    /\ Divergent(witnesses[4]) /\ verifyAns[witnesses[4]] = Err("InvalidCommit")

C9_WitnessOrder ==
    ReturnedOk =>
        /\ \A a \in 1..Len(ReturnedList), b \in 1..Len(ReturnedList) :
              a < b => PosOf(EntryPeer(ReturnedList[a])) < PosOf(EntryPeer(ReturnedList[b]))
        /\ C9_Example =>
              ReturnedList = << Forked(verified_block, Block(witnesses[2])),
                                Timeout(witnesses[3], "Timeout"),
                                Faulty(Block(witnesses[4]), "InvalidCommit") >>

C9_Witness == Precondition /\ ReturnedDetected /\ C9_Example /\ Len(ReturnedList) = 3

(***************************************************************************)
(* C10: witness isolation.  When one witness changes its behaviour between *)
(* two invocations on the same input (including starting to fail), the     *)
(* entry or absence of entry of every other witness is the same in both    *)
(* results; and the store of a witness holds no block of another witness.  *)
(***************************************************************************)
PrevList == IF prev.ret.tag = "Ok" THEN prev.ret.value.forks ELSE <<>>

PrevCalled(op, w) == \E k \in 1..Len(prev.calls) : prev.calls[k] = <<op, w>>

C10_WitnessIsolation ==
    /\ (Precondition /\ pc = "done" /\ invocation = 2) =>
           \A j \in WitnessSet \ {changed} :
               PrevCalled("fetch", j) =>
                   EntriesIn(ReturnedList, j) = EntriesIn(PrevList, j)
    /\ \A e \in light_store : e.block \in {trusted_block, witness_block}

(***************************************************************************)
(* C11: detect_forks returns Detected(list) exactly when the collected     *)
(* list is not empty, and NotDetected otherwise: Detected never carries an *)
(* empty list, NotDetected is never returned when a witness produced an    *)
(* entry.                                                                  *)
(***************************************************************************)
C11_DetectedIffNonEmpty ==
    ReturnedOk =>
        /\ ret.value.variant = "Detected" <=> forks # <<>>
        /\ ret.value.variant = "NotDetected" <=> forks = <<>>
        /\ ret.value.variant = "Detected" => ret.value.forks = forks /\ Len(forks) > 0
        /\ (\E w \in WitnessSet : Called("push", w)) => ret.value.variant = "Detected"

C11_Witness ==
    /\ Precondition
    /\ ReturnedDetected
    /\ Len(witnesses) >= 2
    /\ Len(ret.value.forks) = 1
    /\ \E w \in WitnessSet : Called("push", w)

(***************************************************************************)
(* C12: when trusted_block.height() >= verified_block.height(),            *)
(* detect_forks returns a structural Err and no ForkDetection.             *)
(***************************************************************************)
C12_HeightsChecked ==
    (pc = "done" /\ height(trusted_block) >= height(verified_block)) =>
        /\ ret.tag = "Err"
        /\ \A w \in WitnessSet : ~(Called("fetch", w) /\ FetchFailed(w))

(***************************************************************************)
(* C13: detect_forks called with an empty witness list returns a           *)
(* structural Err, not Ok(NotDetected).                                    *)
(***************************************************************************)
C13_EmptyWitnessListIsErr ==
    (Precondition /\ pc = "done" /\ witnesses = <<>>) => ret.tag = "Err"

(***************************************************************************)
(* C14: determinism.  A second run of detect_forks on the same blocks and  *)
(* witness list, with witnesses that answer identically, returns the       *)
(* result of the first run: same variant, same entries in the same order.  *)
(***************************************************************************)
C14_Determinism ==
    (pc = "done" /\ invocation = 2 /\ changed = 0) => ret = prev.ret

C14_Witness ==
    /\ Precondition
    /\ pc = "done" /\ invocation = 2 /\ changed = 0
    /\ ReturnedDetected
    /\ Len(ReturnedList) = 2
    /\ ret = prev.ret

(***************************************************************************)
(* C15: verify_to_target is never invoked for a witness whose block has    *)
(* the header hash of the primary; such a witness gets no entry, and the   *)
(* trusted block is not inserted into its store.                           *)
(***************************************************************************)
FetchCalls == {k \in 1..Len(calls) : calls[k][1] = "fetch"}

(* the witness the current store was created for *)
StoreOwner == calls[CHOOSE k \in FetchCalls : \A n \in FetchCalls : n <= k][2]

C15_NoVerifyOnMatch ==
    \A w \in WitnessSet :
        (Called("fetch", w) /\ Matching(w)) =>
            /\ ~Called("verify", w)
            /\ ~Called("push", w)
            /\ EntriesIn(forks, w) = {}
            /\ StoreOwner = w => \A e \in light_store : e.status # "Verified"

C15_Witness ==
    /\ Precondition
    /\ ReturnedDetected
    /\ FetchCalls # {}
    /\ Matching(StoreOwner)
    /\ light_store # {}
    /\ \E w \in WitnessSet : Called("verify", w)

(***************************************************************************)
(* C16: when verify_to_target is invoked for a divergent witness, the      *)
(* store of that witness holds exactly trusted_block with status Verified  *)
(* and the witness's block with status Unverified (one entry per height    *)
(* and status), and the target height is verified_block.height().          *)
(***************************************************************************)
StoreEntry(block, status) == [height |-> block.height, status |-> status, block |-> block]

C16_SeededStore(store, w) ==
    /\ store = {StoreEntry(trusted_block, "Verified"), StoreEntry(Block(w), "Unverified")}
    /\ Cardinality(store) = 2
    /\ \A a \in store, b \in store :
          (a.height = b.height /\ a.status = b.status) => a = b

C16_StoreAtVerify ==
    Precondition =>
        /\ pc = "verify" =>
              /\ C16_SeededStore(light_store, witnesses[idx])
              /\ Divergent(witnesses[idx])
        /\ pc = "classify" =>
              /\ C16_SeededStore(verify_call.store, witnesses[idx])
              /\ verify_call.target = height(verified_block)

C16_Witness ==
    /\ Precondition
    /\ pc = "classify"
    /\ idx >= 2
    /\ \E w \in WitnessSet : w # witnesses[idx] /\ Called("verify", w)
    /\ C16_SeededStore(verify_call.store, witnesses[idx])

(***************************************************************************)
(* C17: priority of the classification.  Ok gives Forked; an expired       *)
(* error gives Forked even if it is also a timeout; a timeout that is not  *)
(* expired gives Timeout; only an error that is neither gives Faulty.      *)
(* Each divergent witness gets exactly one of the three variants.          *)
(***************************************************************************)
C17_Variant(w) ==
    IF verifyAns[w].tag = "Ok" THEN "Forked"
    ELSE IF has_expired(verifyAns[w].kind) THEN "Forked"
    ELSE IF is_timeout(verifyAns[w].kind) THEN "Timeout"
    ELSE "Faulty"

CallsOf(op, w) == {k \in 1..Len(calls) : calls[k] = <<op, w>>}

C18_Finished(w, k) ==
    /\ \E n \in CallsOf("fetch", w) : n < k
    /\ \/ Matching(w) /\ CallsOf("verify", w) = {}
       \/ \E n \in CallsOf("push", w) : n < k

(* stated for the latest call of the log: every call is the latest one in *)
(* the state it leads to                                                   *)
C18_Sequential ==
    /\ calls # <<>> =>
          LET k == Len(calls)
              op == calls[k][1]
              w == calls[k][2]
          IN  /\ w \in WitnessSet
              /\ CallsOf(op, w) = {k}
              /\ op = "fetch" =>
                    \A v \in WitnessSet :
                        IF PosOf(v) < PosOf(w) THEN C18_Finished(v, k)
                        ELSE v # w => \A n \in 1..k : calls[n][2] # v
              /\ op = "verify" => k > 1 /\ calls[k - 1] = <<"fetch", w>> /\ Divergent(w)
              /\ op = "push" => k > 1 /\ calls[k - 1] = <<"verify", w>>
    /\ pc \in {"compare", "verify", "classify"} =>
          Len(calls) > 0 /\ calls[Len(calls)][2] = witnesses[idx]

C18_Witness ==
    /\ Precondition
    /\ pc = "done"
    /\ calls = << <<"fetch", 1>>, <<"verify", 1>>, <<"push", 1>>, <<"fetch", 2>>,
                  <<"fetch", 3>>, <<"verify", 3>>, <<"push", 3>> >>

(***************************************************************************)
(* C19: a Time is converted to a SystemTime without wraparound: with       *)
(* seconds = -s < 0 and nanos = 0 the result is the instant s seconds      *)
(* before the Unix epoch, and negative nanos are not taken as an unsigned  *)
(* 32-bit value: the result is the instant seconds + nanos / 10^9.         *)
(***************************************************************************)
C19_NoWraparound ==
    system_time # NoResult =>
        /\ (time.seconds < 0 /\ time.nanos = 0) =>
               system_time = SystemTime(time.seconds, 0)
        /\ time.nanos < 0 =>
               system_time = SystemTime(time.seconds + (time.nanos \div 1000000000),
                                        time.nanos % 1000000000)

(***************************************************************************)
(* C20: every call of a Client method issues exactly one transport         *)
(* request; when the transport returns an error, that error is returned    *)
(* to the caller and no response is parsed; Ok is returned only when the   *)
(* transport succeeded and the response body parsed.                       *)
(***************************************************************************)
C20_OneRequest ==
    /\ Len(requests) <= 1
    /\ rpc_pc \in {"from_string", "return", "done"} =>
           requests = <<into_json(Endpoints[endpoint].request)>>
    /\ Len(parses) <= 1
    /\ parses # <<>> => response_body.tag = "Ok" /\ parses = <<response_body.value>>
    /\ rpc_pc = "done" =>
           /\ response_body.tag = "Err" => rpc_ret = response_body /\ parses = <<>>
           /\ rpc_ret.tag = "Ok" =>
                  /\ response_body.tag = "Ok"
                  /\ parses = <<response_body.value>>
                  /\ from_string(Endpoints[endpoint].request.method,
                                 response_body.value).tag = "Ok"

C20_Witness ==
    /\ rpc_pc = "done"
    /\ endpoint = "health"
    /\ response_body = Err("Timeout")
    /\ rpc_ret = Err("Timeout")
    /\ requests = <<[kind |-> "request", method |-> "health", params |-> "none"]>>

====
